---- MODULE Spec2Model ----
(***************************************************************************)
(* Model of the Netflix recommender: recommender_core.py (load_data,       *)
(* build_model, recommend) and the poster resolver get_tmdb_poster of      *)
(* streamlit_app.py.                                                       *)
(*                                                                         *)
(* Strings are sequences of one-character strings, so that lower(),        *)
(* strip(), slicing, tokenising, int() and difflib work on characters.     *)
(* Python indices are 0-based, the model's are 1-based.                    *)
(*                                                                         *)
(* Floating point is replaced by integers: tf-idf weights are in tenths    *)
(* and a similarity is the squared cosine in hundredths; the scores of     *)
(* get_tmdb_poster are exact fractions.                                    *)
(*                                                                         *)
(* SpecRec is the recommender (load_data, build_model, recommend), SpecRes *)
(* one call of get_tmdb_poster; the two share no state.                    *)
(***************************************************************************)
EXTENDS Integers, Sequences, FiniteSets, TLC

VARIABLES
    df,            \* the catalog DataFrame: a sequence of rows
    cosine_sim,    \* the similarity matrix build_model returned, or NoMatrix
    build_error,   \* the exception build_model raised, or "none"
    rpc,           \* position of the recommender's caller
    rec_title,     \* the title recommend was last called with
    rec_indices,   \* recommend's local movie_indices when it returned
    rec_out,       \* the list recommend last returned
    rec_raised     \* the exception that escaped recommend, or "none"

recVars == <<df, cosine_sim, build_error, rpc, rec_title, rec_indices, rec_out, rec_raised>>

VARIABLES
    pc,            \* position in get_tmdb_poster
    title,         \* its arguments: title (stripped), year, media_type (lower-cased)
    year,
    media_type,
    params,        \* the request parameters
    results,       \* the "results" list of the response
    max_pop,
    best,          \* the position in results of the local best, 0 for None
    best_score,
    i,             \* the position of the loop over results
    title_sim,     \* the locals of the last iteration of the loop
    year_score,
    pop_norm,
    score,
    ret,           \* the value returned
    raised         \* the exception that escaped the call, or "none"

resVars == <<pc, title, year, media_type, params, results, max_pop, best, best_score, i,
             title_sim, year_score, pop_norm, score, ret, raised>>

vars == <<recVars, resVars>>

\* ------------------------------------------------------------------ bounds
MaxRows == 7

\* --------------------------------------------------------------- utilities
Min(a, b) == IF a < b THEN a ELSE b

Range(s) == {s[k] : k \in 1..Len(s)}

SeqsUpTo(S, n) == UNION {[1..k -> S] : k \in 0..n}

\* ------------------------------------------------------------ str methods
UpperAlpha ==
    <<"A","B","C","D","E","F","G","H","I","J","K","L","M",
      "N","O","P","Q","R","S","T","U","V","W","X","Y","Z">>

LowerAlpha ==
    <<"a","b","c","d","e","f","g","h","i","j","k","l","m",
      "n","o","p","q","r","s","t","u","v","w","x","y","z">>

Digits == <<"0","1","2","3","4","5","6","7","8","9">>

\* every character that occurs in the model's strings
Chars ==
    Range(UpperAlpha) \cup Range(LowerAlpha) \cup Range(Digits)
        \cup {" ", "_", "-", "+", "/", ".", ":", "#", "<", ">"}

LowerMap ==
    [c \in Chars |->
        IF \E k \in 1..Len(UpperAlpha) : UpperAlpha[k] = c
        THEN LowerAlpha[CHOOSE k \in 1..Len(UpperAlpha) : UpperAlpha[k] = c]
        ELSE c]

\* str.lower()
Lower(s) == [k \in 1..Len(s) |-> LowerMap[s[k]]]

\* the characters the regular expression class \w matches
WordChars == Range(UpperAlpha) \cup Range(LowerAlpha) \cup Range(Digits) \cup {"_"}

\* ------------------------------------------------------------------ catalog
NaN == <<"<", "N", "a", "N", ">">>

fillna(v) == IF v = NaN THEN <<>> ELSE v

\* The rows a CSV file may hold: "Heat" and "HEAT" are equal when case is
\* ignored and share one of their two indexed terms ("A" is too short to be a
\* term); "The"/"Other" holds stop words only.
Rows ==
    { [title |-> <<"H","e","a","t">>, director |-> NaN, cast |-> NaN,
       listed_in |-> <<"r","e","d">>],
      [title |-> <<"H","E","A","T">>, director |-> <<"A">>, cast |-> NaN,
       listed_in |-> <<"b","l","u","e">>],
      [title |-> <<"T","h","e">>, director |-> NaN, cast |-> NaN,
       listed_in |-> <<"O","t","h","e","r">>] }

\* The titles the user may ask for; the last one is in no catalog.
Queries == { <<"h","e","a","t">>, <<"T","H","E">>, <<"z","u","l","u">> }

\* load_data: the text column is title, director, cast and listed_in joined
\* by single spaces, missing director and cast replaced by "".
Combined(row) ==
    row.title \o <<" ">> \o fillna(row.director) \o <<" ">>
        \o fillna(row.cast) \o <<" ">> \o row.listed_in

load_data_rows(csv) ==
    [k \in 1..Len(csv) |->
        [title |-> csv[k].title, director |-> csv[k].director, cast |-> csv[k].cast,
         listed_in |-> csv[k].listed_in, combined |-> Combined(csv[k])]]

\* ------------------------------------------------------- TfidfVectorizer
\* token_pattern (?u)\b\w\w+\b on the lower-cased text: maximal runs of word
\* characters of length two or more.
RECURSIVE Tokens(_, _)
Tokens(s, cur) ==
    IF s = <<>>
    THEN IF Len(cur) >= 2 THEN <<cur>> ELSE <<>>
    ELSE IF Head(s) \in WordChars
         THEN Tokens(Tail(s), Append(cur, Head(s)))
         ELSE (IF Len(cur) >= 2 THEN <<cur>> ELSE <<>>) \o Tokens(Tail(s), <<>>)

\* stop_words='english': the words of the list that occur in the catalog
StopWords == { <<"t","h","e">>, <<"o","t","h","e","r">> }

Analyze(text) == SelectSeq(Tokens(Lower(text), <<>>), LAMBDA w : w \notin StopWords)

Vocabulary(docs) == UNION {Range(docs[k]) : k \in 1..Len(docs)}

TermCount(doc, t) == Cardinality({k \in 1..Len(doc) : doc[k] = t})

DocFreq(docs, t) == Cardinality({k \in 1..Len(docs) : t \in Range(docs[k])})

\* 10 * ln(k), rounded, for k = 1..12
LnTenths == <<0, 7, 11, 14, 16, 18, 19, 21, 22, 23, 24, 25>>

\* smooth idf, ln((1 + n) / (1 + df)) + 1, in tenths
Idf(docs, t) == LnTenths[1 + Len(docs)] - LnTenths[1 + DocFreq(docs, t)] + 10

\* the tf-idf rows before normalisation: term count times idf
TfidfMatrix(docs) ==
    LET V == Vocabulary(docs)
        idf == [t \in V |-> Idf(docs, t)]
    IN [k \in 1..Len(docs) |-> [t \in V |-> TermCount(docs[k], t) * idf[t]]]

\* the dot product of two weighted rows over the terms V
RECURSIVE Dot(_, _, _)
Dot(V, wa, wb) ==
    IF V = {} THEN 0
    ELSE LET t == CHOOSE y \in V : TRUE
         IN wa[t] * wb[t] + Dot(V \ {t}, wa, wb)

\* The squared cosine in hundredths, 0..100.  The square keeps the arithmetic
\* in integers and orders pairs as the cosine does (weights are non-negative).
\* A row without indexed terms has similarity 0 to every row, itself included.
Cosine(ab, na, nb) ==
    IF na = 0 \/ nb = 0 THEN 0 ELSE (100 * ab * ab) \div (na * nb)

NoMatrix == <<"no matrix">>

\* cosine_similarity(X, X): every pair of rows of the weight matrix X
Norms(V, X) == [k \in 1..Len(X) |-> Dot(V, X[k], X[k])]

CosineMatrix(V, X, norm) ==
    [a \in 1..Len(X) |->
        [b \in 1..Len(X) |-> Cosine(Dot(V, X[a], X[b]), norm[a], norm[b])]]

cosine_similarity(V, X) == CosineMatrix(V, X, Norms(V, X))

\* variant: a vectoriser that accepts an empty vocabulary
fit_transform_unchecked(docs) ==
    [raised |-> "none", value |-> cosine_similarity(Vocabulary(docs), TfidfMatrix(docs))]

\* fit_transform raises ValueError("empty vocabulary; ...") when no document
\* holds an indexable term, which includes the empty catalog.
fit_transform(docs) ==
    IF Vocabulary(docs) = {}
    THEN [raised |-> "ValueError", value |-> NoMatrix]
    ELSE [raised |-> "none",
          value |-> cosine_similarity(Vocabulary(docs), TfidfMatrix(docs))]

build_model_result(d) == fit_transform([k \in 1..Len(d) |-> Analyze(d[k].combined)])

\* ---------------------------------------------------------------- recommend
\* first character of the message is U+274C
NotFoundMsg ==
    <<"#"," ","T","i","t","l","e"," ","n","o","t"," ","f","o","u","n","d",".",
      " ","T","r","y"," ","a","n","o","t","h","e","r",".">>

\* df[df['title'].str.lower() == title.lower()].index: the matching positions
MatchIndex(query, d) == {k \in 1..Len(d) : Lower(d[k].title) = Lower(query)}

\* variant: a sort that puts a pair before the pairs of equal score
RECURSIVE InsertDesc_unstable(_, _)
InsertDesc_unstable(s, x) ==
    IF s = <<>> THEN <<x>>
    ELSE IF Head(s)[2] > x[2]
         THEN <<Head(s)>> \o InsertDesc_unstable(Tail(s), x)
         ELSE <<x>> \o s

\* sorted(..., key=lambda x: x[1], reverse=True): a stable sort, pairs with equal
\* scores keep their order
RECURSIVE InsertDesc(_, _)
InsertDesc(s, x) ==
    IF s = <<>> THEN <<x>>
    ELSE IF Head(s)[2] >= x[2]
         THEN <<Head(s)>> \o InsertDesc(Tail(s), x)
         ELSE <<x>> \o s

RECURSIVE SortedDesc(_)
SortedDesc(s) ==
    IF s = <<>> THEN <<>>
    ELSE InsertDesc(SortedDesc(SubSeq(s, 1, Len(s) - 1)), s[Len(s)])

\* sim_scores[1:6]
TopSlice(s) == SubSeq(s, 2, Min(6, Len(s)))

\* variant: no except branch, the IndexError of .index[0] escapes
not_found_result_raises == [raised |-> "IndexError", indices |-> <<>>, value |-> <<>>]

\* the except IndexError branch
not_found_result == [raised |-> "none", indices |-> <<>>, value |-> <<NotFoundMsg>>]

\* .index[0]: the first matching row
FirstMatch(query, d) ==
    CHOOSE k \in MatchIndex(query, d) : \A j \in MatchIndex(query, d) : k <= j

ranked_result(d, sliced) ==
    [raised |-> "none",
     indices |-> [k \in 1..Len(sliced) |-> sliced[k][1]],
     value |-> [k \in 1..Len(sliced) |-> d[sliced[k][1]].title]]

recommend_result(query, d, cs) ==
    IF MatchIndex(query, d) = {}
    THEN not_found_result
    ELSE ranked_result(d,
            TopSlice(SortedDesc([j \in 1..Len(d) |-> <<j, cs[FirstMatch(query, d)][j]>>])))

\* ======================================================== get_tmdb_poster
\* JSON values of a TMDb result, and Python's None: a kind with the string or
\* the number it holds
JNull == [kind |-> "null", s |-> <<>>, n |-> 0]

JStr(x) == [kind |-> "str", s |-> x, n |-> 0]

JNum(k) == [kind |-> "num", s |-> <<>>, n |-> k]

\* Python truth value: None, "" and 0 are false
Truthy(j) ==
    CASE j.kind = "null" -> FALSE
      [] j.kind = "str" -> j.s # <<>>
      [] j.kind = "num" -> j.n # 0

\* a or b
Or(a, b) == IF Truthy(a) THEN a ELSE b

\* str.strip()
RECURSIVE LStrip(_)
LStrip(s) == IF s # <<>> /\ Head(s) = " " THEN LStrip(Tail(s)) ELSE s

RECURSIVE RStrip(_)
RStrip(s) ==
    IF s # <<>> /\ s[Len(s)] = " " THEN RStrip(SubSeq(s, 1, Len(s) - 1)) ELSE s

Strip(s) == LStrip(RStrip(s))

\* s[:4]
Prefix4(s) == SubSeq(s, 1, Min(4, Len(s)))

DigitValue(c) == (CHOOSE k \in 1..10 : Digits[k] = c) - 1

IsDigit(c) == \E k \in 1..10 : Digits[k] = c

\* the value of a string of digits and underscores, underscores skipped
RECURSIVE DigitsValue(_, _)
DigitsValue(s, acc) ==
    IF s = <<>> THEN acc
    ELSE IF Head(s) = "_" THEN DigitsValue(Tail(s), acc)
         ELSE DigitsValue(Tail(s), 10 * acc + DigitValue(Head(s)))

\* the digit part of an integer literal: digits, single underscores between them
DigitGroups(s) ==
    /\ s # <<>>
    /\ IsDigit(s[1]) /\ IsDigit(s[Len(s)])
    /\ \A k \in 1..Len(s) : IsDigit(s[k]) \/ s[k] = "_"
    /\ \A k \in 1..(Len(s) - 1) : ~(s[k] = "_" /\ s[k + 1] = "_")

Unsigned(s) == IF s # <<>> /\ Head(s) \in {"+", "-"} THEN Tail(s) ELSE s

\* int(s) for a string: surrounding blanks stripped, an optional sign, digits.
\* raised is "ValueError" for anything else.
int_of_str(s) ==
    IF DigitGroups(Unsigned(Strip(s)))
    THEN [raised |-> "none",
          value |-> IF Strip(s)[1] = "-"
                    THEN 0 - DigitsValue(Unsigned(Strip(s)), 0)
                    ELSE DigitsValue(Unsigned(Strip(s)), 0)]
    ELSE [raised |-> "ValueError", value |-> 0]

\* float(x) for the popularity values of the model: a JSON number, or a string,
\* which converts when it is an integer literal and raises ValueError otherwise
float_of(j) ==
    IF j.kind = "num" THEN [raised |-> "none", value |-> j.n]
    ELSE int_of_str(j.s)

\* ---------------------------------------------------------------- difflib
\* the blocks (i, j, k) with a[i..i+k-1] = b[j..j+k-1], k >= 1
CommonBlocks(a, b) ==
    {blk \in (1..Len(a)) \X (1..Len(b)) \X (1..Min(Len(a), Len(b))) :
        /\ blk[1] + blk[3] - 1 <= Len(a)
        /\ blk[2] + blk[3] - 1 <= Len(b)
        /\ \A d \in 0..(blk[3] - 1) : a[blk[1] + d] = b[blk[2] + d]}

\* find_longest_match: the longest block, of those the one starting earliest in
\* a, of those the one starting earliest in b
LongestMatch(a, b) ==
    CHOOSE x \in CommonBlocks(a, b) :
        \A y \in CommonBlocks(a, b) :
            \/ x[3] > y[3]
            \/ x[3] = y[3] /\ x[1] < y[1]
            \/ x[3] = y[3] /\ x[1] = y[1] /\ x[2] <= y[2]

\* get_matching_blocks: the size of the longest block plus the matches found to
\* the left and to the right of it
RECURSIVE MatchCount(_, _)
MatchCount(a, b) ==
    IF CommonBlocks(a, b) = {} THEN 0
    ELSE LET x == LongestMatch(a, b)
         IN x[3]
            + MatchCount(SubSeq(a, 1, x[1] - 1), SubSeq(b, 1, x[2] - 1))
            + MatchCount(SubSeq(a, x[1] + x[3], Len(a)), SubSeq(b, x[2] + x[3], Len(b)))

\* SequenceMatcher(None, a, b).ratio() = 2.0 * matches / (len(a) + len(b)), and
\* 1.0 for two empty strings; a fraction [num, den]
Ratio(a, b) ==
    IF Len(a) + Len(b) = 0 THEN [num |-> 1, den |-> 1]
    ELSE [num |-> 2 * MatchCount(a, b), den |-> Len(a) + Len(b)]

\* ------------------------------------------------------------- fractions
\* Scores are Python floats; the model keeps them as exact fractions with a
\* positive denominator.
Frac(n, d) == [num |-> n, den |-> d]

Less(x, y) == x.num * y.den < y.num * x.den

SameValue(x, y) == x.num * y.den = y.num * x.den

\* ---------------------------------------------------------------- inputs
MaxCands == 3

None == JNull

Movie(t, date, pop, poster) ==
    [title |-> t, name |-> JNull, release_date |-> date, first_air_date |-> JNull,
     popularity |-> pop, poster_path |-> poster]

Tv(n, date, pop, poster) ==
    [title |-> JNull, name |-> n, release_date |-> JNull, first_air_date |-> date,
     popularity |-> pop, poster_path |-> poster]

\* The records a TMDb search may return: exact and loose title matches, release
\* years at distance 0, 1, 3 and 4 from 1999, dates that are empty, absent, cut
\* short or not numeric, popularity that is absent, zero, a number, a numeric
\* string or text, and records without a poster.
Candidates ==
    { Movie(JStr(<<"H","e","a","t">>),
            JStr(<<"1","9","9","9","-","0","3","-","3","1">>),
            JNum(4),
            JStr(<<"/","a",".","j","p","g">>)),
      Movie(JStr(<<"H","e","i","r">>),
            JStr(<<"1","9","9","9","-","0","1","-","0","1">>),
            JNum(2),
            JStr(<<"/","b",".","j","p","g">>)),
      Tv(JStr(<<" ","H","E","A","T"," ">>),
            JStr(<<"2","0","0","0","-","0","5","-","0","7">>),
            JNull,
            JNull),
      Movie(JStr(<<"H","e","a","t">>),
            JStr(<<"2","0","x","1","-","0","1","-","0","1">>),
            JNum(4),
            JStr(<<"/","c",".","j","p","g">>)),
      Movie(JStr(<<"H","e","i","r">>),
            JStr(<<>>),
            JStr(<<"n","/","a">>),
            JStr(<<"/","d",".","j","p","g">>)),
      Movie(JStr(<<"Z","u","l","u">>),
            JStr(<<"2","0","0","3","-","0","5","-","0","7">>),
            JStr(<<"4">>),
            JStr(<<"/","e",".","j","p","g">>)),
      Movie(JStr(<<"H","e","a","t"," ","2">>),
            JStr(<<"2","0","0","2","-","1","1","-","0","7">>),
            JNum(0),
            JStr(<<>>)),
      Tv(JStr(<<"H","e","i","r">>),
            JStr(<<"1","9","9">>),
            JNum(4),
            JStr(<<"/","f",".","j","p","g">>)) }

\* the titles, years and media types of a call; the blank title strips to ""
ArgTitles == { <<" ","H","e","a","t">>, <<" ">> }

ArgYears == { None, JNum(1999), JNum(2001) }

ArgMediaTypes == { <<"m","o","v","i","e">>, <<"T","V">> }

\* ------------------------------------------------------------ the scoring
\* candidate_title = (r.get("title") or r.get("name") or "").strip()
candidate_title(r) == Strip(Or(Or(r.title, r.name), JStr(<<>>)).s)

\* rd = r.get("release_date") or r.get("first_air_date") or ""
release_of(r) == Or(Or(r.release_date, r.first_air_date), JStr(<<>>)).s

Abs(n) == IF n < 0 THEN 0 - n ELSE n

\* variant: strict comparisons in the elif chain
year_score_of_diff_strict(diff) ==
    IF diff = 0 THEN 10
    ELSE IF diff < 1 THEN 7
    ELSE IF diff < 3 THEN 4
    ELSE 0

\* the if/elif chain on diff, in tenths
year_score_of_diff(diff) ==
    IF diff = 0 THEN 10
    ELSE IF diff <= 1 THEN 7
    ELSE IF diff <= 3 THEN 4
    ELSE 0

\* year_score in tenths; int() raising is caught and leaves 0.0
year_score_of(yr, rd) ==
    IF Truthy(yr) /\ rd # <<>>
    THEN IF int_of_str(Prefix4(rd)).raised = "none"
         THEN year_score_of_diff(Abs(int_of_str(Prefix4(rd)).value - yr.n))
         ELSE 0
    ELSE 0

\* pop = float(r.get("popularity") or 0)
pop_of(r) == float_of(Or(r.popularity, JNum(0)))

\* pops = [float(r.get("popularity") or 0) for r in results] raises when one
\* conversion does
pops_raised(rs) ==
    IF \E k \in 1..Len(rs) : pop_of(rs[k]).raised # "none" THEN "ValueError" ELSE "none"

\* max(pops)
max_pop_of(rs) ==
    CHOOSE m \in {pop_of(rs[k]).value : k \in 1..Len(rs)} :
        \A k \in 1..Len(rs) : pop_of(rs[k]).value <= m

\* pop_norm = pop / max_pop if max_pop > 0 else 0.0
pop_norm_of(r, mp) ==
    IF mp > 0 THEN Frac(pop_of(r).value, mp) ELSE Frac(0, 1)

\* variant: without a year the title counts in full
score_of_unweighted(yr, ts, ys, pn) ==
    IF Truthy(yr)
    THEN Frac(60 * ts.num * pn.den + 3 * ys * ts.den * pn.den + 10 * pn.num * ts.den,
              100 * ts.den * pn.den)
    ELSE Frac(100 * ts.num * pn.den + 15 * pn.num * ts.den, 100 * ts.den * pn.den)

\* score = 0.6 * title_sim + 0.3 * year_score + 0.1 * pop_norm with a year,
\* 0.85 * title_sim + 0.15 * pop_norm without; over the denominator
\* 100 * ts.den * pn.den, year_score in tenths
score_of(yr, ts, ys, pn) ==
    IF Truthy(yr)
    THEN Frac(60 * ts.num * pn.den + 3 * ys * ts.den * pn.den + 10 * pn.num * ts.den,
              100 * ts.den * pn.den)
    ELSE Frac(85 * ts.num * pn.den + 15 * pn.num * ts.den, 100 * ts.den * pn.den)

\* variant: score >= best_score
better_or_equal(s, bs) == ~Less(s, bs)

\* if score > best_score
better(s, bs) == Less(bs, s)

\* variant: 0.30 whether or not the query has a year
threshold_lenient(yr) == Frac(30, 100)

\* threshold = 0.30 with a year, 0.60 without
threshold_of(yr) == IF Truthy(yr) THEN Frac(30, 100) ELSE Frac(60, 100)

ImageBase ==
    <<"h","t","t","p","s",":","/","/","i","m","a","g","e",".","t","m",
      "d","b",".","o","r","g","/","t","/","p","/","w","5","0","0">>

\* variant: the path alone
poster_url_bare(p) == p

\* f"https://image.tmdb.org/t/p/w500{poster_path}"
poster_url(p) == ImageBase \o p

\* =================================================================== Init
InitRec ==
    /\ df = <<>>
    /\ cosine_sim = NoMatrix
    /\ build_error = "none"
    /\ rpc = "start"
    /\ rec_title = <<>>
    /\ rec_indices = <<>>
    /\ rec_out = <<>>
    /\ rec_raised = "none"

InitRes ==
    /\ pc = "idle"
    /\ title = <<>>
    /\ year = None
    /\ media_type = <<>>
    /\ params = [query |-> <<>>, year |-> None]
    /\ results = <<>>
    /\ max_pop = 0
    /\ best = 0
    /\ best_score = Frac(-1, 1)
    /\ i = 0
    /\ title_sim = Frac(0, 1)
    /\ year_score = 0
    /\ pop_norm = Frac(0, 1)
    /\ score = Frac(0, 1)
    /\ ret = None
    /\ raised = "none"

Init == InitRec /\ InitRes

\* ---------------------------------------------------- recommender actions
\* setup(): df = load_data("netflix_titles.csv")
load_data ==
    /\ rpc = "start"
    /\ \E csv \in SeqsUpTo(Rows, MaxRows) : df' = load_data_rows(csv)
    /\ rpc' = "loaded"
    /\ UNCHANGED <<cosine_sim, build_error, rec_title, rec_indices, rec_out, rec_raised>>
    /\ UNCHANGED resVars

\* setup(): cosine_sim = build_model(df); an exception ends the script
build_model ==
    /\ rpc = "loaded"
    /\ LET r == build_model_result(df)
       IN /\ cosine_sim' = r.value
          /\ build_error' = r.raised
          /\ rpc' = IF r.raised = "none" THEN "built" ELSE "failed"
    /\ UNCHANGED <<df, rec_title, rec_indices, rec_out, rec_raised>>
    /\ UNCHANGED resVars

\* results = recommend(movie_name, df, cosine_sim)
recommend ==
    /\ rpc = "built"
    /\ \E query \in Queries :
          LET r == recommend_result(query, df, cosine_sim)
          IN /\ rec_title' = query
             /\ rec_indices' = r.indices
             /\ rec_out' = r.value
             /\ rec_raised' = r.raised
    /\ rpc' = "returned"
    /\ UNCHANGED <<df, cosine_sim, build_error>>
    /\ UNCHANGED resVars

NextRec == load_data \/ build_model \/ recommend

SpecRec == Init /\ [][NextRec]_vars

\* ------------------------------------------------------- resolver actions
\* lines 93-112: strip the title, return None for a blank one, build the request
call ==
    /\ pc = "idle"
    /\ \E t \in ArgTitles, y \in ArgYears, m \in ArgMediaTypes :
          /\ title' = Strip(t)
          /\ year' = y
          /\ media_type' = Lower(m)
          /\ params' = [query |-> Strip(t),
                        year |-> IF Lower(m) = <<"m","o","v","i","e">> /\ Truthy(y) THEN y ELSE None]
          /\ pc' = IF Strip(t) = <<>> THEN "done" ELSE "request"
    /\ ret' = None
    /\ UNCHANGED <<results, max_pop, best, best_score, i, title_sim, year_score,
                   pop_norm, score, raised>>
    /\ UNCHANGED recVars

\* lines 114-122: requests.get raised, or answered with a status other than 200
request_fails ==
    /\ pc = "request"
    /\ pc' = "done"
    /\ ret' = None
    /\ UNCHANGED <<title, year, media_type, params, results, max_pop, best, best_score,
                   i, title_sim, year_score, pop_norm, score, raised>>
    /\ UNCHANGED recVars

\* lines 114-129: the response's results; none ends the call with None, a
\* popularity that float() rejects raises out of the function
request_ok ==
    /\ pc = "request"
    /\ \E rs \in SeqsUpTo(Candidates, MaxCands) :
          /\ results' = rs
          /\ IF rs = <<>>
             THEN /\ pc' = "done"
                  /\ UNCHANGED <<max_pop, raised>>
             ELSE IF pops_raised(rs) # "none"
             THEN /\ pc' = "done"
                  /\ raised' = pops_raised(rs)
                  /\ UNCHANGED max_pop
             ELSE /\ pc' = "loop"
                  /\ max_pop' = max_pop_of(rs)
                  /\ UNCHANGED raised
    /\ best' = 0
    /\ best_score' = Frac(-1, 1)
    /\ i' = 1
    /\ ret' = None
    /\ UNCHANGED <<title, year, media_type, params, title_sim, year_score, pop_norm, score>>
    /\ UNCHANGED recVars

\* lines 131-169: one iteration of the loop over results
score_candidate ==
    /\ pc = "loop"
    /\ i <= Len(results)
    /\ LET r == results[i]
           ts == Ratio(Lower(title), Lower(candidate_title(r)))
           ys == year_score_of(year, release_of(r))
           pn == pop_norm_of(r, max_pop)
           sc == score_of(year, ts, ys, pn)
       IN /\ title_sim' = ts
          /\ year_score' = ys
          /\ pop_norm' = pn
          /\ score' = sc
          /\ IF better(sc, best_score)
             THEN best_score' = sc /\ best' = i
             ELSE UNCHANGED <<best_score, best>>
    /\ i' = i + 1
    /\ UNCHANGED <<pc, title, year, media_type, params, results, max_pop, ret, raised>>
    /\ UNCHANGED recVars

\* lines 173-188: the confidence gate and the poster of the best candidate
gate_result(rs, b, bs, yr) ==
    IF b = 0 THEN None
    ELSE IF Less(bs, threshold_of(yr)) THEN None
    ELSE IF Truthy(rs[b].poster_path) THEN JStr(poster_url(rs[b].poster_path.s))
    ELSE None

gate ==
    /\ pc = "loop"
    /\ i > Len(results)
    /\ ret' = gate_result(results, best, best_score, year)
    /\ pc' = "done"
    /\ UNCHANGED <<title, year, media_type, params, results, max_pop, best, best_score,
                   i, title_sim, year_score, pop_norm, score, raised>>
    /\ UNCHANGED recVars

NextRes == call \/ request_fails \/ request_ok \/ score_candidate \/ gate

SpecRes == Init /\ [][NextRes]_vars

\* ------------------------------------------------------ recommender claims
Returned == rpc = "returned"

Matched == MatchIndex(rec_title, df) # {}

QueryIdx == FirstMatch(rec_title, df)

\* C1: whenever the query title matches a row, the row at the resolved query
\* index is not among the rows recommend returns.
C1_QueryRowExcluded ==
    (Returned /\ Matched) => QueryIdx \notin Range(rec_indices)

TopK == 5

\* C2: a matching query returns min(TopK, N-1) titles, at most TopK, the titles
\* of rows listed by non-increasing similarity to the query row, rows of equal
\* similarity in catalog order.
Ranked(sims, indices) ==
    \A k, l \in 1..Len(indices) :
        k < l =>
           /\ sims[indices[k]] >= sims[indices[l]]
           /\ sims[indices[k]] = sims[indices[l]] => indices[k] < indices[l]

C2_TopKRanked ==
    (Returned /\ Matched) =>
        /\ rec_raised = "none"
        /\ Len(rec_out) <= TopK
        /\ Len(rec_out) = Min(TopK, Len(df) - 1)
        /\ Len(rec_indices) = Len(rec_out)
        /\ \A k \in 1..Len(rec_out) :
              /\ rec_indices[k] \in 1..Len(df)
              /\ rec_out[k] = df[rec_indices[k]].title
        /\ Ranked(cosine_sim[QueryIdx], rec_indices)

HasTieAndDescent(sims, indices) ==
    /\ \E k \in 1..4 : sims[indices[k]] = sims[indices[k + 1]]
    /\ \E k \in 1..4 : sims[indices[k]] > sims[indices[k + 1]]
    /\ \E k \in 1..4 : sims[indices[k + 1]] \notin {0, 100}

\* a catalog of seven rows cut to five, holding a tie and a strict descent
C2_Witness ==
    /\ Returned /\ Matched
    /\ Len(df) = 7
    /\ Len(rec_out) = TopK
    /\ HasTieAndDescent(cosine_sim[QueryIdx], rec_indices)

\* C3: a query that matches no title returns the one-element not-found list
\* without raising: not the empty list, no title of the catalog, and the call
\* leaves the catalog and the similarity matrix as they were.
C3_NotFound ==
    [][(rpc = "built" /\ rpc' = "returned" /\ MatchIndex(rec_title', df) = {}) =>
           /\ rec_raised' = "none"
           /\ rec_out' = <<NotFoundMsg>>
           /\ rec_out' # <<>>
           /\ \A k \in 1..Len(rec_out') : \A j \in 1..Len(df) : rec_out'[k] # df[j].title
           /\ df' = df
           /\ cosine_sim' = cosine_sim]_vars

C3_Witness == Returned /\ ~Matched /\ Len(df) >= 2 /\ rec_out = <<NotFoundMsg>>

\* C7 as the specification states it: building from zero rows fails with
\* EmptyCatalogError and yields no matrix.
C7_EmptyCatalogError ==
    (Len(df) = 0 /\ rpc \notin {"start", "loaded"}) =>
        /\ rpc = "failed"
        /\ build_error = "EmptyCatalogError"
        /\ cosine_sim = NoMatrix

\* C7 amended: building from zero rows fails with the vectoriser's ValueError,
\* no matrix is produced, and after any failed build recommend is not reached.
C7_EmptyCatalogFails ==
    /\ (Len(df) = 0 /\ rpc \notin {"start", "loaded"}) =>
           /\ rpc = "failed"
           /\ build_error = "ValueError"
    /\ build_error # "none" =>
           /\ rpc = "failed"
           /\ cosine_sim = NoMatrix
           /\ rec_out = <<>>

C7_Witness == rpc = "failed" /\ Len(df) = 0 /\ build_error = "ValueError"

\* --------------------------------------------------------- resolver claims
\* the loop of get_tmdb_poster has run to its end and the gate has returned
Gated == pc = "done" /\ raised = "none" /\ results # <<>> /\ i = Len(results) + 1

\* at least one iteration of the loop has run; its locals are those of results[i-1]
Iterated == pc \in {"loop", "done"} /\ raised = "none" /\ results # <<>> /\ i > 1

Found == ret.kind = "str"

HasYear == year.kind = "num" /\ year.n # 0

\* the sub-scores of the candidate at position k
TitleSimAt(k) == Ratio(Lower(title), Lower(candidate_title(results[k])))

YearScoreAt(k) == year_score_of(year, release_of(results[k]))

PopNormAt(k) == pop_norm_of(results[k], max_pop)

\* x = a/100 * ts + b/1000 * ys + c/100 * pn, for ys in tenths
IsWeightedSum(x, a, ts, b, ys, c, pn) ==
    x.num * (100 * ts.den * pn.den)
        = (a * ts.num * pn.den + b * ys * ts.den * pn.den + c * pn.num * ts.den) * x.den

\* the composite score as the specification states it
IsComposite(x, ts, ys, pn) ==
    IF HasYear THEN IsWeightedSum(x, 60, ts, 3, ys, 10, pn)
    ELSE IsWeightedSum(x, 85, ts, 0, ys, 15, pn)

\* C4: whatever the candidates' release dates and popularity values are, the
\* call raises nothing and ends in Found or NotFound.
C4_MessyDataNeverRaises ==
    pc = "done" => (raised = "none" /\ ret.kind \in {"str", "null"})

\* C5: a winning score below 0.30 (query with a year) or 0.60 (without) gives
\* NotFound, an empty candidate list gives NotFound, and Found implies a
\* non-empty list and a winning score at or above the threshold.
C5_ConfidenceGate ==
    pc = "done" =>
        /\ results = <<>> => ret = None
        /\ (Gated /\ HasYear /\ Less(best_score, Frac(30, 100))) => ret = None
        /\ (Gated /\ ~HasYear /\ Less(best_score, Frac(60, 100))) => ret = None
        /\ Found =>
              /\ Gated
              /\ best \in 1..Len(results)
              /\ IsComposite(best_score, TitleSimAt(best), YearScoreAt(best), PopNormAt(best))
              /\ HasYear => ~Less(best_score, Frac(30, 100))
              /\ ~HasYear => ~Less(best_score, Frac(60, 100))

\* a winner with a poster that is rejected by the 0.60 gate, not by the 0.30 one
C5_Witness ==
    /\ Gated /\ ~HasYear
    /\ Less(best_score, Frac(60, 100)) /\ ~Less(best_score, Frac(30, 100))
    /\ Truthy(results[best].poster_path)
    /\ ret = None

\* C6: the candidate chosen has the maximum composite score of the whole list,
\* the composite being 0.6 titleSim + 0.3 yearScore + 0.1 popNorm with a query
\* year and 0.85 titleSim + 0.15 popNorm without, and of the candidates sharing
\* the maximum it is the earliest.
C6_Selection ==
    Gated =>
        /\ best \in 1..Len(results)
        /\ IsComposite(best_score, TitleSimAt(best), YearScoreAt(best), PopNormAt(best))
        /\ \A k \in 1..Len(results) :
              \E x \in {score_of(year, TitleSimAt(k), YearScoreAt(k), PopNormAt(k))} :
                 /\ IsComposite(x, TitleSimAt(k), YearScoreAt(k), PopNormAt(k))
                 /\ ~Less(best_score, x)
                 /\ k < best => Less(x, best_score)

\* two candidates share the maximum and the earlier one is chosen
C6_Witness ==
    /\ Gated
    /\ \E k \in 1..Len(results) :
          /\ k > best
          /\ results[k] # results[best]
          /\ IsComposite(best_score, TitleSimAt(k), YearScoreAt(k), PopNormAt(k))

\* the winner passed the gate
Accepted == Gated /\ best # 0 /\ ~Less(best_score, threshold_of(year))

\* C8 as the specification states it: an accepted winner's image path is
\* returned as it is, and NotFound when it has none.
C8_ReturnsPathFragment ==
    Accepted =>
        ret = IF Truthy(results[best].poster_path) THEN results[best].poster_path ELSE None

\* C8 amended: an accepted winner's image path is returned appended to the
\* image host prefix https://image.tmdb.org/t/p/w500, and NotFound when the
\* winner has none, whatever the other candidates hold.
C8_ReturnsImageUrl ==
    Accepted =>
        ret = IF Truthy(results[best].poster_path)
              THEN JStr(ImageBase \o results[best].poster_path.s)
              ELSE None

C8_Witness ==
    /\ Accepted
    /\ Len(results) >= 2
    /\ Truthy(results[best].poster_path)
    /\ ret = JStr(ImageBase \o results[best].poster_path.s)

\* the winner has no poster, a lower-scoring candidate has one, NotFound
C8_NoFallbackWitness ==
    /\ Accepted
    /\ ~Truthy(results[best].poster_path)
    /\ \E k \in 1..Len(results) : Truthy(results[k].poster_path)
    /\ ret = None

Half(x) == x.num * 2 = x.den

\* C9: a candidate with titleSim 0.5 and the query's year scores
\* 0.6*0.5 + 0.3*1.0 + 0.1*popNorm >= 0.30 and, when it wins, passes the 0.30
\* gate; without a query year a candidate with titleSim 0.5 scores
\* 0.85*0.5 + 0.15*popNorm < 0.60 and, when it wins, is rejected.
C9_LooseTitleExactYear ==
    /\ (Iterated /\ Half(title_sim) /\ HasYear /\ year_score = 10) =>
          /\ score.num * 100 * pop_norm.den
                = (60 * pop_norm.den + 10 * pop_norm.num) * score.den
          /\ ~Less(score, Frac(30, 100))
    /\ (Iterated /\ Half(title_sim) /\ ~HasYear) =>
          /\ score.num * 200 * pop_norm.den
                = (85 * pop_norm.den + 30 * pop_norm.num) * score.den
          /\ Less(score, Frac(60, 100))
    /\ (Gated /\ HasYear /\ Half(TitleSimAt(best)) /\ YearScoreAt(best) = 10) =>
          (Found \/ ~Truthy(results[best].poster_path))
    /\ (Gated /\ ~HasYear /\ Half(TitleSimAt(best))) => ret = None

\* a loose title with the exact year wins with a year and is found
C9_Witness ==
    /\ Gated /\ HasYear /\ Found
    /\ Half(TitleSimAt(best)) /\ YearScoreAt(best) = 10
    /\ PopNormAt(best).num # 0 /\ PopNormAt(best).num < PopNormAt(best).den

\* the same candidate list without a year: the loose title wins and is rejected
C9_RejectedWithoutYear ==
    /\ Gated /\ ~HasYear /\ ret = None
    /\ Half(TitleSimAt(best)) /\ PopNormAt(best).num = PopNormAt(best).den
    /\ Truthy(results[best].poster_path)

\* a release date that starts with four digits, and the year they spell
HasYearPrefix(rd) == Len(rd) >= 4 /\ \A k \in 1..4 : IsDigit(rd[k])

YearPrefix(rd) ==
    1000 * DigitValue(rd[1]) + 100 * DigitValue(rd[2]) + 10 * DigitValue(rd[3])
        + DigitValue(rd[4])

====
